---------------------------- MODULE Spec2Model ----------------------------
(***************************************************************************)
(* Ticket lifecycle and seat inventory of the event-management backend:    *)
(* bookTicket, cancelTicket and checkInTicket of src/services/             *)
(* ticketService.js over the Ticket and Event collections.                 *)
(*                                                                         *)
(* Every handler is an async function.  Each await of a database call is a *)
(* point where other requests run, so one action of the model is one       *)
(* database call together with the synchronous code that follows it up to  *)
(* the next await (or up to the response).  `new Date()` in that code is   *)
(* read at the instant of the action.                                      *)
(*                                                                         *)
(* ticket.save() on a loaded document writes only the paths the handler    *)
(* modified (Mongoose sends a $set of the modified paths, filtered by _id  *)
(* alone), so a save never restores fields another request changed.        *)
(***************************************************************************)
EXTENDS Integers, Sequences, FiniteSets, TLC

(***************************************************************************)
(* Bounds of the model.                                                    *)
(***************************************************************************)
\* concurrent clients (authenticated sessions), one request each at a time
NumProcs == 2
\* tickets ever created
MaxTickets == 2
\* requests received in one run, failed ones included
MaxRequests == 3
\* the clock runs from 0 to MaxTime hours in steps of TimeStep hours
MaxTime == 72
TimeStep == 24

Procs == 1..NumProcs
EventIds == {"e1"}
SeatNumbers == {"A1", "A2"}
\* ticketModel.js:77  enum of payment.paymentMethod
PaymentMethods == {"cash", "card", "online", "bank_transfer"}
\* the payment methods the requests of the model ask for
RequestedMethods == {"card"}

(***************************************************************************)
(* Program constants.                                                      *)
(***************************************************************************)
\* ticketService.js:225  if (hoursUntilEvent < 24)
CancelWindowHours == 24
\* eventModel.js:107  enum of Event.status
EventStatuses == {"draft", "published", "cancelled", "completed"}
\* the values an organizer's update moves an event between in the model
UpdatedStatuses == {"published", "cancelled"}

(***************************************************************************)
(* req.user: authService.protect loads the user of the session.  Client 1  *)
(* is a manager, client 2 an admin, any further client a plain user.  The  *)
(* user id is the client's number.                                         *)
(***************************************************************************)
UserOf(p) == p

RoleOf(u) == IF u = 1 THEN "manager" ELSE IF u = 2 THEN "admin" ELSE "user"

\* req.user.name, the attendee name of a booking without attendeeInfo
NameOf(u) == "user" \o ToString(u)

VARIABLES
  events,     \* Event collection: id -> document
  tickets,    \* Ticket collection: sequence of documents, _id = index
  now,        \* wall clock, in hours
  req,        \* per client: the request in progress and its locals
  resp,       \* the HTTP response sent by the last step, if any
  checkIns,   \* per ticket: number of 200 responses of checkInTicket
  issued      \* number of requests received so far

vars == <<events, tickets, now, req, resp, checkIns, issued>>

\* ticketModel.js:89-92  qrCode {data, image} of a ticket not yet given one
NoQR == [data |-> <<>>, image |-> "none"]

Idle ==
  [pc |-> "idle", event |-> "none", seat |-> "none", ticket |-> 0,
   number |-> "none"]

Response(op, code) == [op |-> op, code |-> code]

NoResponse == Response("none", "none")

(***************************************************************************)
(* Event.create with the default path of the pre-save hook: availableSeats *)
(* is set to totalSeats and soldSeats defaults to 0.                       *)
(***************************************************************************)
NewEvent(total, start) ==
  [status |-> "published", totalSeats |-> total, availableSeats |-> total,
   soldSeats |-> 0, start |-> start]

Init ==
  /\ events = [e \in EventIds |-> NewEvent(1, 48)]
  /\ tickets = <<>>
  /\ now = 0
  /\ req = [p \in Procs |-> Idle]
  /\ resp = NoResponse
  /\ checkIns = <<>>
  /\ issued = 0


(***************************************************************************)
(* Helpers over the collections.                                           *)
(***************************************************************************)
TicketIds == 1..Len(tickets)

\* variant: the update increments soldSeats and forgets availableSeats
IncSeats_SoldOnly(ev, d) ==
  [ev EXCEPT !.soldSeats = @ + d]

\* Event.findByIdAndUpdate(id, {$inc: {soldSeats: d, availableSeats: -d}}):
\* one atomic update of both counters of the stored document.
IncSeats(ev, d) ==
  [ev EXCEPT !.soldSeats = @ + d, !.availableSeats = @ - d]

\* variant: the lookup without the status filter
SeatHolders_AnyStatus(e, s) ==
  {i \in 1..Len(tickets) : /\ tickets[i].event = e
                           /\ tickets[i].seatNumber = s}

\* variant: the lookup without the event filter
SeatHolders_AnyEvent(e, s) ==
  {i \in 1..Len(tickets) : /\ tickets[i].seatNumber = s
                           /\ tickets[i].status \in {"active", "used"}}

\* ticketService.js:112-116  Ticket.findOne({event, seatNumber,
\* status: {$in: ['active','used']}})
SeatHolders(e, s) ==
  {i \in TicketIds : /\ tickets[i].event = e
                     /\ tickets[i].seatNumber = s
                     /\ tickets[i].status \in {"active", "used"}}

\* variant: the capacity check written as availableSeats < 0
BookEventCheck_Below0(ev, t) ==
  IF ev.status # "published" THEN "EventNotPublished"
  ELSE IF ev.availableSeats < 0 THEN "SoldOut"
  ELSE IF t > ev.start THEN "EventPast"
  ELSE "ok"

\* ticketService.js:95-109  the checks on the loaded event, in code order
BookEventCheck(ev, t) ==
  IF ev.status # "published" THEN "EventNotPublished"
  ELSE IF ev.availableSeats <= 0 THEN "SoldOut"
  ELSE IF t > ev.start THEN "EventPast"
  ELSE "ok"

\* variant: every booking is stored as paid
PaymentStatusFor_AlwaysCompleted(m) == "completed"

\* ticketService.js:156  paymentStatus from the payment method
PaymentStatusFor(m) == IF m = "cash" THEN "pending" ELSE "completed"

\* ticketModel.js:141-157  the number the pre-save hook leaves on a new
\* document, `EVT-<date>-<random>`; k stands for the date and random part
TicketNumber(k) == "EVT-" \o ToString(k)

\* the ticket numbers stored in the collection (unique index, line 7)
UsedNumbers == {tickets[i].ticketNumber : i \in 1..Len(tickets)}

\* ticketService.js:135-165 with the schema defaults of ticketModel.js
\* (status 'active', checkIn.isCheckedIn false); n is the ticketNumber
NewTicket(e, u, s, m, n) ==
  [ticketNumber |-> n,
   event |-> e, user |-> u, seatNumber |-> s, status |-> "active",
   paymentStatus |-> PaymentStatusFor(m),
   isCheckedIn |-> FALSE, checkedInBy |-> 0,
   qrCode |-> NoQR]

(***************************************************************************)
(* The credential codec: JSON.stringify of the qrData object and           *)
(* JSON.parse of a presented string.  A JSON text is a sequence of tokens, *)
(* punctuation or string literals; an object in memory is a sequence of    *)
(* <<key, value>> members in insertion order, a value being an ObjectId, a *)
(* string or undefined.                                                    *)
(***************************************************************************)
Punct(c) == [t |-> "punct", v |-> c]
Lit(x) == [t |-> "string", v |-> x]

TicketOid(i) == [kind |-> "ticketOid", id |-> i, s |-> ""]
EventOid(e) == [kind |-> "eventOid", id |-> 0, s |-> e]
Str(x) == [kind |-> "string", id |-> 0, s |-> x]
Undefined == [kind |-> "undefined", id |-> 0, s |-> ""]

\* ObjectId.prototype.toJSON: the hex string of the id
HexOfTicket(i) == "oid-t" \o ToString(i)
HexOfEvent(e) == "oid-" \o e

\* the cast of a hex string to the _id of Ticket.findById; 0 names no ticket
TicketOfHex(h) ==
  IF \E i \in 1..MaxTickets : HexOfTicket(i) = h
    THEN CHOOSE i \in 1..MaxTickets : HexOfTicket(i) = h
    ELSE 0

\* the string JSON.stringify writes for a defined value
ToJSON(val) ==
  IF val.kind = "ticketOid" THEN HexOfTicket(val.id)
  ELSE IF val.kind = "eventOid" THEN HexOfEvent(val.s)
  ELSE val.s

IsDefined(member) == member[2].kind # "undefined"

\* the members `key : value` of a text, separated by commas
JoinMembers(ms) ==
  [k \in 1..(4 * Len(ms) - 1) |->
     IF k % 4 = 1 THEN Lit(ms[(k + 3) \div 4][1])
     ELSE IF k % 4 = 2 THEN Punct(":")
     ELSE IF k % 4 = 3 THEN Lit(ToJSON(ms[(k + 1) \div 4][2]))
     ELSE Punct(",")]

\* JSON.stringify of an object: members with an undefined value are left out
JSONStringify(obj) ==
  <<Punct("{")>> \o JoinMembers(SelectSeq(obj, IsDefined)) \o <<Punct("}")>>

ParseError == [ok |-> FALSE, obj |-> [k \in {} |-> ""]]

\* JSON.parse: a text of one string literal parses to that string, which has
\* none of the properties read from it; a text in braces parses to the
\* object of its members if they are `key : value` separated by commas;
\* anything else throws SyntaxError
JSONParse(text) ==
  IF Len(text) = 1 /\ text[1].t = "string"
    THEN [ok |-> TRUE, obj |-> [k \in {} |-> ""]]
  ELSE IF Len(text) < 2 \/ text[1] # Punct("{") \/ text[Len(text)] # Punct("}")
    THEN ParseError
  ELSE LET body == SubSeq(text, 2, Len(text) - 1)
           n == (Len(body) + 1) \div 4
       IN
       IF body = <<>> THEN [ok |-> TRUE, obj |-> [k \in {} |-> ""]]
       ELSE IF (Len(body) + 1) % 4 # 0 THEN ParseError
       ELSE IF \E i \in 1..n :
                 \/ body[4 * i - 3].t # "string"
                 \/ body[4 * i - 2] # Punct(":")
                 \/ body[4 * i - 1].t # "string"
                 \/ (i < n /\ body[4 * i] # Punct(","))
         THEN ParseError
       ELSE [ok |-> TRUE,
             obj |-> [k \in {body[4 * i - 3].v : i \in 1..n} |->
                        LET last == CHOOSE i \in 1..n :
                              /\ body[4 * i - 3].v = k
                              /\ \A j \in (i + 1)..n : body[4 * j - 3].v # k
                        IN body[4 * last - 1].v]]

\* obj[k] read as a condition: undefined and the empty string are falsy
Truthy(obj, k) == k \in DOMAIN obj /\ obj[k] # ""

\* obj.k, with "" standing for undefined
Field(obj, k) == IF k \in DOMAIN obj THEN obj[k] ELSE ""

\* variant: the payload without the ticket number
QRData_NoNumber(id, n, e, s, name) ==
  << <<"ticketId", TicketOid(id)>>,
     <<"eventId", EventOid(e)>>,
     <<"seatNumber", Str(s)>>,
     <<"attendeeName", name>> >>

\* ticketService.js:170-176  the qrData object of the new ticket
QRData(id, n, e, s, name) ==
  << <<"ticketId", TicketOid(id)>>,
     <<"ticketNumber", Str(n)>>,
     <<"eventId", EventOid(e)>>,
     <<"seatNumber", Str(s)>>,
     <<"attendeeName", name>> >>

\* the number drawn for the next ticket in the runs of Spec, in which the
\* generator never draws a number in use
FreshNumbers == {TicketNumber(Len(tickets) + 1)}

\* bookings admitted but whose ticket is not created yet (a booking is
\* admitted only while the run's ticket bound leaves room for its ticket)
PendingCreates ==
  Cardinality({p \in Procs : req[p].pc \in {"book_findSeat", "book_create", "book_insert"}})

(***************************************************************************)
(* bookTicket  (ticketService.js:90-202)                                   *)
(***************************************************************************)
\* lines 94-109: Event.findById, then the status / capacity / date checks
BookLoadEvent(p, e, s) ==
  /\ req[p].pc = "idle"
  /\ issued < MaxRequests
  /\ issued' = issued + 1
  /\ Len(tickets) + PendingCreates < MaxTickets
  /\ IF e \notin DOMAIN events
       THEN /\ resp' = Response("book", "EventNotFound")
            /\ req' = req
       ELSE LET r == BookEventCheck(events[e], now) IN
            IF r # "ok"
              THEN /\ resp' = Response("book", r)
                   /\ req' = req
              ELSE /\ resp' = NoResponse
                   /\ req' = [req EXCEPT ![p] =
                        [Idle EXCEPT !.pc = "book_findSeat", !.event = e,
                                     !.seat = s]]
  /\ UNCHANGED <<events, tickets, now, checkIns>>

\* lines 112-165: Ticket.findOne for the seat, then pricing and ticketData
BookFindSeat(p) ==
  /\ req[p].pc = "book_findSeat"
  /\ IF SeatHolders(req[p].event, req[p].seat) # {}
       THEN /\ resp' = Response("book", "SeatTaken")
            /\ req' = [req EXCEPT ![p] = Idle]
       ELSE /\ resp' = NoResponse
            /\ req' = [req EXCEPT ![p].pc = "book_create"]
  /\ UNCHANGED <<events, tickets, now, checkIns, issued>>

\* the error middleware's answer to a rejected database call
ServerError(op) == Response(op, "ServerError")

\* the insert of Ticket.create without the unique index on ticketNumber
InsertTicket_NoUniqueIndex(p, m, n) ==
  /\ tickets' = Append(tickets,
        NewTicket(req[p].event, UserOf(p), req[p].seat, m, n))
  /\ checkIns' = Append(checkIns, 0)
  /\ req' = [req EXCEPT ![p].pc = "book_saveQR",
                        ![p].ticket = Len(tickets) + 1,
                        ![p].number = "none"]
  /\ resp' = NoResponse

\* line 167 and ticketModel.js:5-9: the insert of Ticket.create, status
\* active; m is req.body.paymentMethod, which the handler reads only for
\* ticketData, and n the ticketNumber the pre-save hook has put on the
\* document.  The unique index on ticketNumber rejects the insert of a
\* number in use; the rejection leaves the handler at line 167 and is
\* answered by the error middleware.
InsertTicket(p, m, n) ==
  IF n \in UsedNumbers
    THEN /\ resp' = ServerError("book")
         /\ req' = [req EXCEPT ![p] = Idle]
         /\ UNCHANGED <<tickets, checkIns>>
    ELSE /\ tickets' = Append(tickets,
               NewTicket(req[p].event, UserOf(p), req[p].seat, m, n))
         /\ checkIns' = Append(checkIns, 0)
         /\ req' = [req EXCEPT ![p].pc = "book_saveQR",
                               ![p].ticket = Len(tickets) + 1,
                               ![p].number = "none"]
         /\ resp' = NoResponse

\* line 167: Ticket.create as one step, the pre-save hook included, for a
\* hook that has left the number n on the document
BookCreate(p, m, n) ==
  /\ req[p].pc = "book_create"
  /\ InsertTicket(p, m, n)
  /\ UNCHANGED <<events, now, issued>>

\* ticketModel.js:141-157: the pre-save hook of a new ticket draws the
\* number d1, looks it up (an await) and, when a ticket holds it, replaces
\* it by a second draw d2 that it does not look up
GenerateTicketNumber(d1, d2) ==
  IF TicketNumber(d1) \in UsedNumbers THEN TicketNumber(d2) ELSE TicketNumber(d1)

\* line 167, first part: Ticket.create runs the pre-save hook up to next()
BookGenerateNumber(p, d1, d2) ==
  /\ req[p].pc = "book_create"
  /\ req' = [req EXCEPT ![p].pc = "book_insert",
                        ![p].number = GenerateTicketNumber(d1, d2)]
  /\ resp' = NoResponse
  /\ UNCHANGED <<events, tickets, now, checkIns, issued>>

\* line 167, second part: Ticket.create sends the insert of the document
\* the hook has numbered
BookInsert(p, m) ==
  /\ req[p].pc = "book_insert"
  /\ InsertTicket(p, m, req[p].number)
  /\ UNCHANGED <<events, now, issued>>

\* part_003:18-57  generateQRCode answers {success, filePath}; it catches
\* every error of its own and then answers without a filePath
QRImage(generated) == IF generated THEN "file" ELSE "undefined"

\* lines 178-184: the qrCode the handler puts on its ticket
NewQRCode(p, generated) ==
  [data |-> JSONStringify(QRData(req[p].ticket,
                                 tickets[req[p].ticket].ticketNumber,
                                 req[p].event, req[p].seat,
                                 Str(NameOf(UserOf(p))))),
   image |-> QRImage(generated)]

\* variant: the save writes the whole document as the handler holds it
BookSaveQR_WholeDocument(p, generated) ==
  /\ req[p].pc = "book_saveQR"
  /\ tickets' = [tickets EXCEPT ![req[p].ticket] =
        [@ EXCEPT !.status = "active", !.paymentStatus = "completed",
                  !.isCheckedIn = FALSE, !.checkedInBy = 0,
                  !.qrCode = NewQRCode(p, generated)]]
  /\ req' = [req EXCEPT ![p].pc = "book_commit"]
  /\ resp' = NoResponse
  /\ UNCHANGED <<events, now, checkIns, issued>>

\* lines 169-185: generateQRCode, then ticket.save() writes qrCode only;
\* generated tells whether generateQRCode produced the image file
BookSaveQR(p, generated) ==
  /\ req[p].pc = "book_saveQR"
  /\ tickets' = [tickets EXCEPT ![req[p].ticket].qrCode =
        NewQRCode(p, generated)]
  /\ req' = [req EXCEPT ![p].pc = "book_commit"]
  /\ resp' = NoResponse
  /\ UNCHANGED <<events, now, checkIns, issued>>

\* lines 187-201: $inc of the event's counters, then the 201 response
\* (the closing Ticket.findById only reads)
BookCommit(p) ==
  /\ req[p].pc = "book_commit"
  /\ events' = [events EXCEPT ![req[p].event] = IncSeats(@, 1)]
  /\ resp' = Response("book", "Booked")
  /\ req' = [req EXCEPT ![p] = Idle]
  /\ UNCHANGED <<tickets, now, checkIns, issued>>

(***************************************************************************)
(* cancelTicket  (ticketService.js:207-245)                                *)
(***************************************************************************)
\* variant: the window check refuses only once the event has started
CancelCheck_NoWindow(tk, ev, u, t) ==
  IF tk.user # u /\ RoleOf(u) # "admin" THEN "Forbidden"
  ELSE IF tk.status # "active" THEN "NotActive"
  ELSE IF ev.start - t < 0 THEN "CancellationWindowClosed"
  ELSE "ok"

\* variant: the status is looked at before the caller
CancelCheck_StatusFirst(tk, ev, u, t) ==
  IF tk.status # "active" THEN "NotActive"
  ELSE IF tk.user # u /\ RoleOf(u) # "admin" THEN "Forbidden"
  ELSE IF ev.start - t < CancelWindowHours THEN "CancellationWindowClosed"
  ELSE "ok"

\* lines 215-227: the checks on the loaded ticket and its event, in order
CancelCheck(tk, ev, u, t) ==
  IF tk.user # u /\ RoleOf(u) # "admin" THEN "Forbidden"
  ELSE IF tk.status # "active" THEN "NotActive"
  ELSE IF ev.start - t < CancelWindowHours THEN "CancellationWindowClosed"
  ELSE "ok"

\* lines 208-232: Ticket.findById().populate('event'), then the checks
CancelLoad(p, id) ==
  /\ req[p].pc = "idle"
  /\ issued < MaxRequests
  /\ issued' = issued + 1
  /\ IF id \notin TicketIds
       THEN /\ resp' = Response("cancel", "TicketNotFound")
            /\ req' = req
       ELSE LET r == CancelCheck(tickets[id], events[tickets[id].event],
                                 UserOf(p), now) IN
            IF r # "ok"
              THEN /\ resp' = Response("cancel", r)
                   /\ req' = req
              ELSE /\ resp' = NoResponse
                   /\ req' = [req EXCEPT ![p] =
                        [Idle EXCEPT !.pc = "cancel_save", !.ticket = id,
                                     !.event = tickets[id].event]]
  /\ UNCHANGED <<events, tickets, now, checkIns>>

\* variant: the save writes the status and leaves the payment status
CancelSave_KeepPayment(p) ==
  /\ req[p].pc = "cancel_save"
  /\ tickets' = [tickets EXCEPT ![req[p].ticket].status = "cancelled"]
  /\ req' = [req EXCEPT ![p].pc = "cancel_release"]
  /\ resp' = NoResponse
  /\ UNCHANGED <<events, now, checkIns, issued>>

\* lines 230-233: ticket.save() writes status and payment.paymentStatus
CancelSave(p) ==
  /\ req[p].pc = "cancel_save"
  /\ tickets' = [tickets EXCEPT ![req[p].ticket].status = "cancelled",
                                ![req[p].ticket].paymentStatus = "refunded"]
  /\ req' = [req EXCEPT ![p].pc = "cancel_release"]
  /\ resp' = NoResponse
  /\ UNCHANGED <<events, now, checkIns, issued>>

\* lines 235-244: $inc of the event's counters, then the 200 response
CancelRelease(p) ==
  /\ req[p].pc = "cancel_release"
  /\ events' = [events EXCEPT ![req[p].event] = IncSeats(@, -1)]
  /\ resp' = Response("cancel", "Cancelled")
  /\ req' = [req EXCEPT ![p] = Idle]
  /\ UNCHANGED <<tickets, now, checkIns, issued>>

(***************************************************************************)
(* checkInTicket  (ticketService.js:250-302)                               *)
(***************************************************************************)
\* variant: the event's status is looked at before the ticket's
CheckInCheck_EventFirst(tk, ev) ==
  IF ev.status # "published" THEN "EventNotActive"
  ELSE IF tk.status # "active" THEN "TicketNotActive"
  ELSE IF tk.isCheckedIn THEN "AlreadyCheckedIn"
  ELSE "ok"

\* lines 264-278: the checks on the loaded ticket, in code order
CheckInCheck(tk, ev) ==
  IF tk.status # "active" THEN "TicketNotActive"
  ELSE IF tk.isCheckedIn THEN "AlreadyCheckedIn"
  ELSE IF ev.status # "published" THEN "EventNotActive"
  ELSE "ok"

\* ticketRoute.js:36 allowedTo('admin','manager'); lines 260-287:
\* Ticket.findById(ticketInfo.ticketId).populate(...), then the checks;
\* id is the ticket that ticketInfo.ticketId names, 0 if it names none
CheckInLoad(p, id) ==
  /\ req[p].pc = "idle"
  /\ issued < MaxRequests
  /\ issued' = issued + 1
  /\ IF RoleOf(UserOf(p)) \notin {"admin", "manager"}
       THEN /\ resp' = Response("checkin", "NotAllowed")
            /\ req' = req
       ELSE IF id \notin TicketIds
       THEN /\ resp' = Response("checkin", "TicketNotFound")
            /\ req' = req
       ELSE LET r == CheckInCheck(tickets[id], events[tickets[id].event]) IN
            IF r # "ok"
              THEN /\ resp' = Response("checkin", r)
                   /\ req' = req
              ELSE /\ resp' = NoResponse
                   /\ req' = [req EXCEPT ![p] =
                        [Idle EXCEPT !.pc = "checkin_save", !.ticket = id]]
  /\ UNCHANGED <<events, tickets, now, checkIns>>

\* variant: the chain does not ask for the ticket number
CheckInValidator_NoNumber(text) ==
  /\ text # <<>>
  /\ LET parsed == JSONParse(text) IN
     /\ parsed.ok
     /\ Truthy(parsed.obj, "ticketId")
     /\ Truthy(parsed.obj, "eventId")

\* ticketValidator.js:56-78  check('qrData').notEmpty().custom(...): the
\* string parses and the parsed value has the three fields
CheckInValidator(text) ==
  /\ text # <<>>
  /\ LET parsed == JSONParse(text) IN
     /\ parsed.ok
     /\ Truthy(parsed.obj, "ticketId")
     /\ Truthy(parsed.obj, "eventId")
     /\ Truthy(parsed.obj, "ticketNumber")

\* a check-in request answered before any ticket is loaded
CheckInRefuse(p, code) ==
  /\ req[p].pc = "idle"
  /\ issued < MaxRequests
  /\ issued' = issued + 1
  /\ resp' = Response("checkin", code)
  /\ UNCHANGED <<events, tickets, now, req, checkIns>>

\* validatorMiddleware, the last element of the validator chain: a request
\* whose chain found an error is answered with the validation error and
\* the handler is not called
ValidatorMiddleware(p) == CheckInRefuse(p, "MalformedCredential")

\* POST /tickets/checkin with qrData = text: allowedTo, the validator
\* chain, then checkInTicket lines 251-258 (JSON.parse in a try/catch) and
\* the load of the ticket that ticketInfo.ticketId names
\* variant: the handler looks the credential's eventId up as well
CheckInRequest_ComparesEvent(p, text) ==
  /\ req[p].pc = "idle"
  /\ issued < MaxRequests
  /\ IF RoleOf(UserOf(p)) \notin {"admin", "manager"}
       THEN CheckInRefuse(p, "NotAllowed")
     ELSE IF ~CheckInValidator(text)
       THEN ValidatorMiddleware(p)
     ELSE LET ticketInfo == JSONParse(text) IN
          IF ~ticketInfo.ok
            THEN CheckInRefuse(p, "MalformedCredential")
          ELSE IF Field(ticketInfo.obj, "eventId") \notin
                    {HexOfEvent(e) : e \in DOMAIN events}
            THEN CheckInRefuse(p, "TicketNotFound")
            ELSE CheckInLoad(p, TicketOfHex(Field(ticketInfo.obj, "ticketId")))

CheckInRequest(p, text) ==
  /\ req[p].pc = "idle"
  /\ issued < MaxRequests
  /\ IF RoleOf(UserOf(p)) \notin {"admin", "manager"}
       THEN CheckInRefuse(p, "NotAllowed")
     ELSE IF ~CheckInValidator(text)
       THEN ValidatorMiddleware(p)
     ELSE LET ticketInfo == JSONParse(text) IN
          IF ~ticketInfo.ok
            THEN CheckInRefuse(p, "MalformedCredential")
            ELSE CheckInLoad(p, TicketOfHex(Field(ticketInfo.obj, "ticketId")))

\* a string with the three fields the validator asks for, naming ticket i
Credential(i) ==
  JSONStringify(<< <<"ticketId", TicketOid(i)>>,
                   <<"ticketNumber", Str(TicketNumber(i))>>,
                   <<"eventId", EventOid("e1")>> >>)

\* presented strings that are not well-formed or lack a field: the empty
\* string, a text that is no JSON, a JSON string instead of an object, and
\* objects whose ticketId, eventId or ticketNumber is absent or empty
MalformedCredentials ==
  { <<>>,
    <<Punct("{")>>,
    <<Lit("EVT-1")>>,
    JSONStringify(<< <<"ticketId", Undefined>>,
                     <<"ticketNumber", Str(TicketNumber(1))>>,
                     <<"eventId", EventOid("e1")>> >>),
    JSONStringify(<< <<"ticketId", TicketOid(1)>>,
                     <<"ticketNumber", Str(TicketNumber(1))>>,
                     <<"eventId", Undefined>> >>),
    JSONStringify(<< <<"ticketId", TicketOid(1)>>,
                     <<"ticketNumber", Undefined>>,
                     <<"eventId", EventOid("e1")>> >>),
    JSONStringify(<< <<"ticketId", TicketOid(1)>>,
                     <<"ticketNumber", Str("")>>,
                     <<"eventId", EventOid("e1")>> >>) }

\* well-formed strings, one for every ticket id of the run
WellFormedCredentials == {Credential(i) : i \in 1..MaxTickets}

\* the strings presented at the gate: the credentials stored on the
\* tickets, the well-formed ones and the malformed ones
PresentedCredentials ==
  {tickets[i].qrCode.data : i \in 1..Len(tickets)}
    \cup WellFormedCredentials \cup MalformedCredentials

\* variant: the check-in gives the seat of the ticket back to the event
CheckInSave_ReleasesSeat(p) ==
  /\ req[p].pc = "checkin_save"
  /\ tickets' = [tickets EXCEPT ![req[p].ticket].status = "used",
                                ![req[p].ticket].isCheckedIn = TRUE,
                                ![req[p].ticket].checkedInBy = UserOf(p)]
  /\ checkIns' = [checkIns EXCEPT ![req[p].ticket] = @ + 1]
  /\ events' = [events EXCEPT ![tickets[req[p].ticket].event] = IncSeats(@, -1)]
  /\ resp' = Response("checkin", "CheckedIn")
  /\ req' = [req EXCEPT ![p] = Idle]
  /\ UNCHANGED <<now, issued>>

\* lines 281-301: ticket.save() writes status and checkIn, then the 200
CheckInSave(p) ==
  /\ req[p].pc = "checkin_save"
  /\ tickets' = [tickets EXCEPT ![req[p].ticket].status = "used",
                                ![req[p].ticket].isCheckedIn = TRUE,
                                ![req[p].ticket].checkedInBy = UserOf(p)]
  /\ checkIns' = [checkIns EXCEPT ![req[p].ticket] = @ + 1]
  /\ resp' = Response("checkin", "CheckedIn")
  /\ req' = [req EXCEPT ![p] = Idle]
  /\ UNCHANGED <<events, now, issued>>

(***************************************************************************)
(* Environment: the clock, and the organizer's update of an event's status *)
(* (PUT /events/:id, eventService.js:163 updateEvent).                     *)
(***************************************************************************)
Tick ==
  /\ now + TimeStep <= MaxTime
  /\ now' = now + TimeStep
  /\ resp' = NoResponse
  /\ UNCHANGED <<events, tickets, req, checkIns, issued>>

UpdateEventStatus(e, st) ==
  /\ events[e].status # st
  /\ events' = [events EXCEPT ![e].status = st]
  /\ resp' = NoResponse
  /\ UNCHANGED <<tickets, now, req, checkIns, issued>>

Next ==
  \/ \E p \in Procs, e \in EventIds \cup {"unknown"}, s \in SeatNumbers :
        BookLoadEvent(p, e, s)
  \/ \E p \in Procs : BookFindSeat(p)
  \/ \E p \in Procs, m \in RequestedMethods, n \in FreshNumbers :
        BookCreate(p, m, n)
  \/ \E p \in Procs : BookSaveQR(p, TRUE)
  \/ \E p \in Procs : BookCommit(p)
  \/ \E p \in Procs, id \in 1..MaxTickets : CancelLoad(p, id)
  \/ \E p \in Procs : CancelSave(p)
  \/ \E p \in Procs : CancelRelease(p)
  \/ \E p \in Procs, id \in 1..MaxTickets : CheckInLoad(p, id)
  \/ \E p \in Procs : CheckInSave(p)
  \/ Tick
  \/ \E e \in EventIds, st \in UpdatedStatuses : UpdateEventStatus(e, st)

Spec == Init /\ [][Next]_vars

(***************************************************************************)
(* The gate.  In Spec a check-in request starts at the load of the ticket  *)
(* its credential names (CheckInLoad); SpecGate starts it at the route,    *)
(* with the string presented as qrData, for bookings and check-ins.        *)
(***************************************************************************)
NextGate ==
  \/ \E p \in Procs, e \in EventIds, s \in SeatNumbers : BookLoadEvent(p, e, s)
  \/ \E p \in Procs : BookFindSeat(p)
  \/ \E p \in Procs, m \in RequestedMethods, n \in FreshNumbers :
        BookCreate(p, m, n)
  \/ \E p \in Procs : BookSaveQR(p, TRUE)
  \/ \E p \in Procs : BookCommit(p)
  \/ \E p \in Procs, text \in PresentedCredentials : CheckInRequest(p, text)
  \/ \E p \in Procs : CheckInSave(p)
  \/ \E e \in EventIds, st \in UpdatedStatuses : UpdateEventStatus(e, st)

SpecGate == Init /\ [][NextGate]_vars

(***************************************************************************)
(* Credentials that agree on ticketId.  Nothing signs a credential, so a   *)
(* client can present the payload of a ticket with any of the other four   *)
(* fields rewritten.                                                       *)
(***************************************************************************)
\* the payload of ticket i as bookTicket writes it for seat A1 and user 2,
\* and the payloads that differ from it in eventId, ticketNumber,
\* seatNumber, attendeeName or all four
PayloadsOf(i) ==
  { QRData(i, TicketNumber(i), "e1", "A1", Str(NameOf(2))),
    QRData(i, TicketNumber(i), "e0", "A1", Str(NameOf(2))),
    QRData(i, TicketNumber(0), "e1", "A1", Str(NameOf(2))),
    QRData(i, TicketNumber(i), "e1", "Z9", Str(NameOf(2))),
    QRData(i, TicketNumber(i), "e1", "A1", Str("nobody")),
    QRData(i, TicketNumber(0), "e0", "Z9", Str("nobody")) }

VariedCredentials ==
  UNION {{JSONStringify(obj) : obj \in PayloadsOf(i)} : i \in 1..MaxTickets}

\* ticketInfo.ticketId of a presented string
TicketIdOf(text) == Field(JSONParse(text).obj, "ticketId")

\* the client at the gate (the manager) and the client that books
GateClients == {1}
BookingClients == {2}

\* bookings by the one client, and check-ins by the other that present the
\* varied credentials
NextVaried ==
  \/ \E p \in BookingClients, e \in EventIds, s \in SeatNumbers :
        BookLoadEvent(p, e, s)
  \/ \E p \in BookingClients : BookFindSeat(p)
  \/ \E p \in BookingClients, m \in RequestedMethods, n \in FreshNumbers :
        BookCreate(p, m, n)
  \/ \E p \in BookingClients : BookSaveQR(p, TRUE)
  \/ \E p \in BookingClients : BookCommit(p)
  \/ \E p \in GateClients, text \in VariedCredentials : CheckInRequest(p, text)
  \/ \E p \in GateClients : CheckInSave(p)
  \/ \E e \in EventIds, st \in UpdatedStatuses : UpdateEventStatus(e, st)

SpecVaried == Init /\ [][NextVaried]_vars

(***************************************************************************)
(* The ticket document.  The tickets of the specifications above carry the *)
(* fields the lifecycle reads; here bookTicket is followed with the        *)
(* ticketData of lines 122-165 and the defaults and validators of the      *)
(* ticket schema, for events whose pricing is drawn from bounded sets.     *)
(* The clock is drawn with the pricing and stands still during the run:    *)
(* lines 123-158 read it in one synchronous block.                         *)
(***************************************************************************)
\* a number or date that a document may lack
NoNumber == [defined |-> FALSE, v |-> 0]
Num(x) == [defined |-> TRUE, v |-> x]

\* a string that a document may lack
NoText == [defined |-> FALSE, v |-> ""]
Text(x) == [defined |-> TRUE, v |-> x]

\* eventModel.js:75-88 and eventValidator.js:75-79: ticketPrice is a number
\* not below 0; earlyBird.price and earlyBird.deadline are optional and
\* have no validator
TicketPrices == {0, 10}
EarlyBirdPrices == {NoNumber, Num(0 - 5), Num(0), Num(5), Num(15)}
EarlyBirdDeadlines == {NoNumber, Num(24), Num(48)}

\* the clock values of the runs: before the deadlines, and at the first
ClockValues == {0, 24}

\* the event runs for a day (eventModel.js:206-211: end is after start)
EventHours == 24

\* ticketModel.js:163  24 * 60 * 60 * 1000 ms
ValidityHours == 24

\* Event.create for a pricing and an end
NewPricedEvent(price, earlyPrice, deadline) ==
  NewEvent(1, 48) @@
    [pricing |-> [ticketPrice |-> price,
                  earlyBird |-> [price |-> earlyPrice, deadline |-> deadline]],
     end |-> 48 + EventHours]

InitPricing ==
  /\ \E price \in TicketPrices, earlyPrice \in EarlyBirdPrices,
        deadline \in EarlyBirdDeadlines :
        events = [e \in EventIds |-> NewPricedEvent(price, earlyPrice, deadline)]
  /\ now \in ClockValues
  /\ tickets = <<>>
  /\ req = [p \in Procs |-> Idle]
  /\ resp = NoResponse
  /\ checkIns = <<>>
  /\ issued = 0

\* lines 123-132: the early-bird price is taken when the deadline is after
\* currentDate and the price is truthy; a missing deadline compares false
\* and a missing price or a price of 0 is falsy
ResolvePrice(pricing, t) ==
  IF /\ pricing.earlyBird.deadline.defined
     /\ pricing.earlyBird.deadline.v > t
     /\ pricing.earlyBird.price.defined
     /\ pricing.earlyBird.price.v # 0
    THEN [finalPrice |-> pricing.earlyBird.price.v,
          discount |-> pricing.ticketPrice - pricing.earlyBird.price.v]
    ELSE [finalPrice |-> pricing.ticketPrice, discount |-> 0]

\* lines 148-159: pricing and payment of ticketData; paymentStatus is the
\* field paymentStatus of NewTicket
TicketData(ev, m, t) ==
  [pricing |-> [originalPrice |-> ev.pricing.ticketPrice,
                finalPrice |-> ResolvePrice(ev.pricing, t).finalPrice,
                discount |-> ResolvePrice(ev.pricing, t).discount],
   payment |-> [paymentMethod |-> m,
                paidAt |-> IF m # "cash" THEN Num(t) ELSE NoNumber,
                transactionId |-> IF m # "cash"
                                    THEN Text("TXN-" \o ToString(t))
                                    ELSE NoText]]

\* variant: the schema without its minimum validators
ValidTicketData_NoMinimum(data) ==
  data.payment.paymentMethod \in PaymentMethods

\* ticketModel.js:53-79: originalPrice, finalPrice and discount have
\* min: 0, paymentMethod is required and one of the enum
ValidTicketData(data) ==
  /\ data.pricing.originalPrice >= 0
  /\ data.pricing.finalPrice >= 0
  /\ data.pricing.discount >= 0
  /\ data.payment.paymentMethod \in PaymentMethods

\* ticketModel.js:160-166: the hook of a new ticket without validUntil
ValidUntilDefault(t) == t + ValidityHours

\* line 167: Ticket.create(ticketData) as one step: the validators, the
\* hooks and the insert; a document the validators or the unique index
\* reject is not stored and the handler ends with the error
BookCreateDocument(p, m, n) ==
  /\ req[p].pc = "book_create"
  /\ LET data == TicketData(events[req[p].event], m, now) IN
     IF ~ValidTicketData(data) \/ n \in UsedNumbers
       THEN /\ resp' = ServerError("book")
            /\ req' = [req EXCEPT ![p] = Idle]
            /\ UNCHANGED <<tickets, checkIns>>
       ELSE /\ tickets' = Append(tickets,
                  NewTicket(req[p].event, UserOf(p), req[p].seat, m, n)
                    @@ data @@ [validUntil |-> ValidUntilDefault(now)])
            /\ checkIns' = Append(checkIns, 0)
            /\ req' = [req EXCEPT ![p].pc = "book_saveQR",
                                  ![p].ticket = Len(tickets) + 1]
            /\ resp' = NoResponse
  /\ UNCHANGED <<events, now, issued>>

\* bookings of the one client with every payment method of the route
NextPricing ==
  \/ \E p \in BookingClients, e \in EventIds, s \in SeatNumbers :
        BookLoadEvent(p, e, s)
  \/ \E p \in BookingClients : BookFindSeat(p)
  \/ \E p \in BookingClients, m \in PaymentMethods, n \in FreshNumbers :
        BookCreateDocument(p, m, n)
  \/ \E p \in BookingClients : BookSaveQR(p, TRUE)
  \/ \E p \in BookingClients : BookCommit(p)

SpecPricing == InitPricing /\ [][NextPricing]_vars

(***************************************************************************)
(* Failing database calls.  An awaited call of the handlers may reject     *)
(* (connection lost, write refused); express-async-handler passes the      *)
(* rejection to the error middleware, which answers with an error, and the *)
(* handler's remaining statements do not run.  No handler has a try/catch, *)
(* a transaction or a compensating write around its calls.                 *)
(***************************************************************************)
\* line 185: ticket.save() of the credential rejects
BookSaveQRFails(p) ==
  /\ req[p].pc = "book_saveQR"
  /\ resp' = ServerError("book")
  /\ req' = [req EXCEPT ![p] = Idle]
  /\ UNCHANGED <<events, tickets, now, checkIns, issued>>

\* lines 188-190: Event.findByIdAndUpdate of the booking rejects
BookCommitFails(p) ==
  /\ req[p].pc = "book_commit"
  /\ resp' = ServerError("book")
  /\ req' = [req EXCEPT ![p] = Idle]
  /\ UNCHANGED <<events, tickets, now, checkIns, issued>>

\* line 233: ticket.save() of the cancellation rejects
CancelSaveFails(p) ==
  /\ req[p].pc = "cancel_save"
  /\ resp' = ServerError("cancel")
  /\ req' = [req EXCEPT ![p] = Idle]
  /\ UNCHANGED <<events, tickets, now, checkIns, issued>>

\* lines 236-238: Event.findByIdAndUpdate of the cancellation rejects
CancelReleaseFails(p) ==
  /\ req[p].pc = "cancel_release"
  /\ resp' = ServerError("cancel")
  /\ req' = [req EXCEPT ![p] = Idle]
  /\ UNCHANGED <<events, tickets, now, checkIns, issued>>

\* the ticket numbers a booking may draw when draws can collide
DrawnNumbers == {TicketNumber(k) : k \in 1..MaxTickets}

\* the handlers with failing calls, with credential images that
\* generateQRCode fails to produce and with ticket numbers that collide
NextFaults ==
  \/ \E p \in Procs, e \in EventIds, s \in SeatNumbers : BookLoadEvent(p, e, s)
  \/ \E p \in Procs : BookFindSeat(p)
  \/ \E p \in Procs, m \in RequestedMethods, n \in DrawnNumbers :
        BookCreate(p, m, n)
  \/ \E p \in Procs, generated \in BOOLEAN : BookSaveQR(p, generated)
  \/ \E p \in Procs : BookSaveQRFails(p)
  \/ \E p \in Procs : BookCommit(p)
  \/ \E p \in Procs : BookCommitFails(p)
  \/ \E p \in Procs, id \in 1..MaxTickets : CancelLoad(p, id)
  \/ \E p \in Procs : CancelSave(p)
  \/ \E p \in Procs : CancelSaveFails(p)
  \/ \E p \in Procs : CancelRelease(p)
  \/ \E p \in Procs : CancelReleaseFails(p)
  \/ Tick

SpecFaults == Init /\ [][NextFaults]_vars

(***************************************************************************)
(* Ticket numbers.  The hook draws five random digits; the draws of the    *)
(* model range over as many numbers as there can be tickets, so that a     *)
(* draw and its replacement can both meet a number in use.                 *)
(***************************************************************************)
Draws == 1..MaxTickets

\* bookTicket with the pre-save hook and the insert as separate steps, so
\* that two bookings can generate their numbers concurrently
NextNumbers ==
  \/ \E p \in Procs, e \in EventIds, s \in SeatNumbers : BookLoadEvent(p, e, s)
  \/ \E p \in Procs : BookFindSeat(p)
  \/ \E p \in Procs, d1 \in Draws, d2 \in Draws : BookGenerateNumber(p, d1, d2)
  \/ \E p \in Procs, m \in RequestedMethods : BookInsert(p, m)
  \/ \E p \in Procs : BookSaveQR(p, TRUE)
  \/ \E p \in Procs : BookCommit(p)
  \/ \E p \in Procs, id \in 1..MaxTickets : CancelLoad(p, id)
  \/ \E p \in Procs : CancelSave(p)
  \/ \E p \in Procs : CancelRelease(p)

SpecNumbers == Init /\ [][NextNumbers]_vars

(***************************************************************************)
(* Two events.  Event.create has run twice; bookings and cancellations are *)
(* made on either event, with the hook and the insert as separate steps.   *)
(***************************************************************************)
TwoEventIds == EventIds \cup {"e2"}

\* the seat number asked for on either event
SameSeat == {"A1"}

InitEvents ==
  /\ events = [e \in TwoEventIds |-> NewEvent(1, 48)]
  /\ tickets = <<>>
  /\ now = 0
  /\ req = [p \in Procs |-> Idle]
  /\ resp = NoResponse
  /\ checkIns = <<>>
  /\ issued = 0

NextEvents ==
  \/ \E p \in Procs, e \in TwoEventIds, s \in SameSeat : BookLoadEvent(p, e, s)
  \/ \E p \in Procs : BookFindSeat(p)
  \/ \E p \in Procs, d1 \in Draws, d2 \in Draws : BookGenerateNumber(p, d1, d2)
  \/ \E p \in Procs, m \in RequestedMethods : BookInsert(p, m)
  \/ \E p \in Procs : BookSaveQR(p, TRUE)
  \/ \E p \in Procs : BookCommit(p)
  \/ \E p \in Procs, id \in 1..MaxTickets : CancelLoad(p, id)
  \/ \E p \in Procs : CancelSave(p)
  \/ \E p \in Procs : CancelRelease(p)

SpecEvents == InitEvents /\ [][NextEvents]_vars

TypeOK ==
  /\ now \in 0..MaxTime
  /\ issued \in 0..MaxRequests
  /\ Len(tickets) <= MaxTickets
  /\ Len(checkIns) = Len(tickets)


(***************************************************************************)
(* Properties.                                                             *)
(***************************************************************************)
\* tickets of event e that hold a seat (status active or used)
LiveTickets(e) ==
  {i \in TicketIds : tickets[i].event = e /\ tickets[i].status \in {"active", "used"}}

\* no bookTicket or cancelTicket request is in progress
NoBookingOrCancelInProgress ==
  \A p \in Procs : req[p].pc \in {"idle", "checkin_save"}

\* C1: in every reachable state, for every event E and seat S at most one
\* ticket with status active or used exists for (E, S), whatever the
\* interleaving of concurrent bookTicket requests for the same (E, S).
C1_OneLiveTicketPerSeat ==
  \A e \in EventIds, s \in SeatNumbers :
    Cardinality({i \in TicketIds : /\ tickets[i].event = e
                                   /\ tickets[i].seatNumber = s
                                   /\ tickets[i].status \in {"active", "used"}}) <= 1

\* C2: for every event availableSeats + soldSeats = totalSeats, after every
\* bookTicket and cancelTicket step, in every interleaving.
C2_CountersSum ==
  \A e \in EventIds :
    events[e].availableSeats + events[e].soldSeats = events[e].totalSeats

\* a cancellation has just completed while a second booking had committed
C2_Witness ==
  /\ resp = Response("cancel", "Cancelled")
  /\ Len(tickets) = 2
  /\ events["e1"].soldSeats = 1
  /\ events["e1"].availableSeats = 0

\* C3: whenever no booking or cancellation is in progress, soldSeats of each
\* event equals the number of its tickets whose status is active or used.
C3_SoldMatchesLiveTickets ==
  NoBookingOrCancelInProgress =>
    \A e \in EventIds : events[e].soldSeats = Cardinality(LiveTickets(e))

\* C4: an event is never oversold: 0 <= availableSeats and
\* soldSeats <= totalSeats in every reachable state.  Stated for the case
\* the claim singles out, bookings of different seats: as long as no seat
\* is held by two live tickets, no event is oversold.
C4_NeverOversold ==
  C1_OneLiveTicketPerSeat =>
    \A e \in EventIds :
      /\ 0 <= events[e].availableSeats
      /\ events[e].soldSeats <= events[e].totalSeats

\* C5 as stated: a bookTicket request that finds the event with
\* availableSeats = 0 fails with the sold-out error, creates no ticket and
\* leaves the counters unchanged.
C5_SoldOutWheneverNoSeats ==
  [][\A p \in Procs, e \in EventIds, s \in SeatNumbers :
       (events[e].availableSeats = 0 /\ BookLoadEvent(p, e, s))
         => /\ resp' = Response("book", "SoldOut")
            /\ req'[p].pc = "idle"
            /\ tickets' = tickets
            /\ events' = events]_vars

\* C5 amended: a bookTicket request that finds a published event with
\* availableSeats = 0 fails with the sold-out error, creates no ticket and
\* leaves the counters unchanged.
C5_SoldOutWhenPublished ==
  [][\A p \in Procs, e \in EventIds, s \in SeatNumbers :
       (/\ events[e].status = "published"
        /\ events[e].availableSeats = 0
        /\ BookLoadEvent(p, e, s))
         => /\ resp' = Response("book", "SoldOut")
            /\ req'[p].pc = "idle"
            /\ tickets' = tickets
            /\ events' = events]_vars

\* a booking of a published event without seats left was just refused
C5_Witness ==
  /\ resp = Response("book", "SoldOut")
  /\ \E e \in EventIds : /\ events[e].status = "published"
                         /\ events[e].availableSeats = 0


\* C6: in an event with totalSeats = 1 whose seat "A1" is held by an active
\* ticket (available 0, sold 1), a further bookTicket for "A1" answers with
\* the seat-taken error and with no other error, and creates no ticket.
C6_SecondBookingSeatTaken ==
  [][\A p \in Procs, e \in EventIds :
       (/\ events[e].status = "published"
        /\ now <= events[e].start
        /\ events[e].totalSeats = 1
        /\ events[e].availableSeats = 0
        /\ events[e].soldSeats = 1
        /\ \E i \in TicketIds : /\ tickets[i].event = e
                                /\ tickets[i].seatNumber = "A1"
                                /\ tickets[i].status = "active"
        /\ BookLoadEvent(p, e, "A1"))
         => /\ resp' \in {NoResponse, Response("book", "SeatTaken")}
            /\ tickets' = tickets]_vars

\* the seat (E, S) was freed: a cancelled ticket exists for it and no
\* active or used one
SeatFreed(e, s) ==
  /\ \E i \in TicketIds : /\ tickets[i].event = e
                          /\ tickets[i].seatNumber = s
                          /\ tickets[i].status = "cancelled"
  /\ \A i \in TicketIds : (tickets[i].event = e /\ tickets[i].seatNumber = s)
                             => tickets[i].status \notin {"active", "used"}

C8_SecondCheckInAlreadyCheckedIn ==
  [][\A p \in Procs, id \in 1..MaxTickets :
       (/\ id \in TicketIds
        /\ tickets[id].status = "used"
        /\ tickets[id].isCheckedIn
        /\ RoleOf(UserOf(p)) \in {"admin", "manager"}
        /\ CheckInLoad(p, id))
         => /\ resp' = Response("checkin", "AlreadyCheckedIn")
            /\ tickets' = tickets
            /\ checkIns' = checkIns]_vars

\* C9: of the checkInTicket requests for one ticket, concurrent ones
\* included, at most one is answered with success.
C9_AtMostOneCheckInSuccess ==
  \A i \in TicketIds : checkIns[i] <= 1

\* C10: a cancelTicket by the owner or an admin for an active ticket whose
\* event starts less than 24 hours from now fails with the
\* cancellation-window error; ticket, payment status and counters stay.
C10_CancelInsideWindowFails ==
  [][\A p \in Procs, id \in 1..MaxTickets :
       (/\ id \in TicketIds
        /\ (tickets[id].user = UserOf(p) \/ RoleOf(UserOf(p)) = "admin")
        /\ tickets[id].status = "active"
        /\ events[tickets[id].event].start - now < 24
        /\ CancelLoad(p, id))
         => /\ resp' = Response("cancel", "CancellationWindowClosed")
            /\ req'[p].pc = "idle"
            /\ tickets' = tickets
            /\ events' = events]_vars

\* a cancellation of an active ticket was just refused inside the window
C10_Witness ==
  /\ resp = Response("cancel", "CancellationWindowClosed")
  /\ \E i \in TicketIds : /\ tickets[i].status = "active"
                          /\ tickets[i].paymentStatus \in {"pending", "completed"}
                          /\ events[tickets[i].event].start - now < 24

\* C11: a cancelTicket by the owner or an admin for an active ticket, made
\* more than 24 hours before the event starts, succeeds: the request is
\* admitted, its save leaves the ticket cancelled with payment status
\* refunded, and its counter update raises availableSeats by exactly 1 and
\* lowers soldSeats by exactly 1 before the success response.
C11_CancelOutsideWindowSucceeds ==
  [][\A p \in Procs :
       /\ \A id \in 1..MaxTickets :
            (/\ id \in TicketIds
             /\ (tickets[id].user = UserOf(p) \/ RoleOf(UserOf(p)) = "admin")
             /\ tickets[id].status = "active"
             /\ events[tickets[id].event].start - now > 24
             /\ CancelLoad(p, id))
              => /\ req'[p].pc = "cancel_save"
                 /\ req'[p].ticket = id
                 /\ req'[p].event = tickets[id].event
                 /\ resp' = NoResponse
       /\ (req[p].pc = "cancel_save" /\ req'[p] # req[p])
            => /\ req'[p].pc = "cancel_release"
               /\ tickets'[req[p].ticket].status = "cancelled"
               /\ tickets'[req[p].ticket].paymentStatus = "refunded"
               /\ \A i \in TicketIds \ {req[p].ticket} : tickets'[i] = tickets[i]
               /\ events' = events
       /\ (req[p].pc = "cancel_release" /\ req'[p] # req[p])
            => /\ resp' = Response("cancel", "Cancelled")
               /\ req'[p].pc = "idle"
               /\ events'[req[p].event].availableSeats
                    = events[req[p].event].availableSeats + 1
               /\ events'[req[p].event].soldSeats
                    = events[req[p].event].soldSeats - 1
               /\ tickets' = tickets
    ]_vars

\* a cancellation was just answered with success: the ticket is cancelled
\* and refunded and its seat is back in the event's counters
C11_Witness ==
  /\ resp = Response("cancel", "Cancelled")
  /\ \E i \in TicketIds : /\ tickets[i].status = "cancelled"
                          /\ tickets[i].paymentStatus = "refunded"
                          /\ events[tickets[i].event].availableSeats = 1
                          /\ events[tickets[i].event].soldSeats = 0


\* C12: a ticket is cancelled only when strictly more than 24 hours remain
\* before the event starts: a cancelTicket that reads the clock with 24
\* hours or less to go, exactly 24 included, is not admitted and changes no
\* ticket.
C12_CancelOnlyMoreThan24h ==
  [][\A p \in Procs, id \in 1..MaxTickets :
       (/\ id \in TicketIds
        /\ events[tickets[id].event].start - now <= 24
        /\ CancelLoad(p, id))
         => /\ req'[p].pc = "idle"
            /\ tickets' = tickets]_vars

\* C13: once a ticket's status is used or cancelled, no later step of
\* bookTicket, cancelTicket or checkInTicket sets it back to active.
C13_NeverBackToActive ==
  [][\A i \in TicketIds :
       tickets[i].status \in {"used", "cancelled"}
         => tickets'[i].status # "active"]_vars

\* a booking has saved the credential of its ticket and a concurrent
\* cancellation has saved that ticket as cancelled: it is still cancelled
C13_Witness ==
  \E p \in Procs :
    /\ req[p].pc = "book_commit"
    /\ tickets[req[p].ticket].status = "cancelled"
    /\ tickets[req[p].ticket].qrCode # NoQR
    /\ resp = NoResponse
    /\ \A q \in Procs : req[q].pc # "cancel_save"

\* C14: every change of a ticket's status is active -> used,
\* active -> cancelled or active -> expired, in every interleaving of
\* cancelTicket and checkInTicket on the same ticket.
C14_TransitionsFromActiveOnly ==
  [][\A i \in TicketIds :
       tickets'[i].status # tickets[i].status
         => /\ tickets[i].status = "active"
            /\ tickets'[i].status \in {"used", "cancelled", "expired"}]_vars


\* C15: booking is all-or-nothing.  When the insert of the ticket, the
\* save of its credential or the update of the counters fails, no ticket of
\* that request exists afterwards and the counters are as they were; so no
\* failed booking leaves a stored ticket behind.
C15_BookingAllOrNothing ==
  [][\A p \in Procs :
       (/\ req[p].pc \in {"book_create", "book_saveQR", "book_commit"}
        /\ req'[p].pc = "idle"
        /\ resp' = ServerError("book"))
         => /\ req[p].ticket \notin 1..Len(tickets')
            /\ Len(tickets') = Len(tickets)
            /\ events' = events]_vars

\* C16: cancellation is all-or-nothing.  When the release of the seat
\* fails after the ticket was saved as cancelled, the ticket is back in the
\* status it had, active, so that no ticket stays cancelled while its seat
\* is still counted in soldSeats.
C16_CancelAllOrNothing ==
  [][\A p \in Procs :
       (/\ req[p].pc = "cancel_release"
        /\ req'[p].pc = "idle"
        /\ resp' = ServerError("cancel"))
         => /\ tickets'[req[p].ticket].status # "cancelled"
            /\ events' = events]_vars


\* C17: a bookTicket that reads an event which is not published, or whose
\* start lies before the current time, fails with the event-not-bookable
\* error (either message of it), creates no ticket and changes no counter.
C17_NotBookableRefused ==
  [][\A p \in Procs, e \in EventIds, s \in SeatNumbers :
       (/\ (events[e].status # "published" \/ now > events[e].start)
        /\ BookLoadEvent(p, e, s))
         => /\ resp' \in {Response("book", "EventNotPublished"),
                          Response("book", "EventPast")}
            /\ req'[p].pc = "idle"
            /\ tickets' = tickets
            /\ events' = events]_vars


\* C18: for every ticket that bookTicket has given its credential, parsing
\* the string stored in qrCode.data yields the ticket's own id (as the hex
\* string that findById casts back to it), its ticketNumber and the id of
\* its event.
C18_CredentialRoundTrip ==
  \A i \in TicketIds :
    tickets[i].qrCode # NoQR
      => LET decoded == JSONParse(tickets[i].qrCode.data) IN
         /\ decoded.ok
         /\ Field(decoded.obj, "ticketId") = HexOfTicket(i)
         /\ TicketOfHex(Field(decoded.obj, "ticketId")) = i
         /\ Field(decoded.obj, "ticketNumber") = tickets[i].ticketNumber
         /\ Field(decoded.obj, "eventId") = HexOfEvent(tickets[i].event)

\* two bookings have completed and both tickets carry their credential
C18_Witness ==
  /\ resp = Response("book", "Booked")
  /\ Len(tickets) = 2
  /\ \A i \in TicketIds : tickets[i].qrCode.data # <<>>
  /\ tickets[1].ticketNumber # tickets[2].ticketNumber


\* C19: a check-in by gate staff that presents a string which is not
\* well-formed, or which lacks ticketId, eventId or ticketNumber, fails
\* with the malformed-credential error before any ticket is loaded, and
\* changes no ticket.
C19_MalformedCredentialRefused ==
  [][\A p \in Procs :
       (RoleOf(UserOf(p)) \in {"admin", "manager"} /\ issued' # issued)
         => \A text \in MalformedCredentials :
              CheckInRequest(p, text)
                => /\ resp' = Response("checkin", "MalformedCredential")
                   /\ req'[p].pc = "idle"
                   /\ tickets' = tickets
                   /\ checkIns' = checkIns]_vars

\* a malformed string was just refused while ticket 1, which four of the
\* malformed strings name, is active and its event published
C19_Witness ==
  /\ resp = Response("checkin", "MalformedCredential")
  /\ Len(tickets) >= 1
  /\ tickets[1].status = "active"
  /\ tickets[1].qrCode # NoQR
  /\ events[tickets[1].event].status = "published"


\* C20: a checkInTicket by gate staff is decided on the ticket its
\* credential names, in this order: no such ticket - TicketNotFound;
\* status not active - TicketNotActive; isCheckedIn - AlreadyCheckedIn;
\* event not published - EventNotActive; each refusal leaves the ticket
\* as it is.  Only a request that passed all four goes on to its save,
\* and only the save of such a request moves a ticket to used.
C20_CheckInChecksInOrder ==
  [][/\ \A p \in Procs, id \in 1..MaxTickets :
          (/\ RoleOf(UserOf(p)) \in {"admin", "manager"}
           /\ issued' # issued
           /\ CheckInLoad(p, id))
            => IF id \notin TicketIds
                 THEN /\ resp' = Response("checkin", "TicketNotFound")
                      /\ tickets' = tickets /\ req' = req
               ELSE IF tickets[id].status # "active"
                 THEN /\ resp' = Response("checkin", "TicketNotActive")
                      /\ tickets' = tickets /\ req' = req
               ELSE IF tickets[id].isCheckedIn
                 THEN /\ resp' = Response("checkin", "AlreadyCheckedIn")
                      /\ tickets' = tickets /\ req' = req
               ELSE IF events[tickets[id].event].status # "published"
                 THEN /\ resp' = Response("checkin", "EventNotActive")
                      /\ tickets' = tickets /\ req' = req
               ELSE /\ req'[p].pc = "checkin_save"
                    /\ req'[p].ticket = id
                    /\ tickets' = tickets
     /\ \A p \in Procs :
          (req[p].pc = "checkin_save" /\ req'[p] # req[p])
            => /\ tickets'[req[p].ticket].status = "used"
               /\ tickets'[req[p].ticket].isCheckedIn
               /\ resp' = Response("checkin", "CheckedIn")
     /\ \A i \in TicketIds :
          (tickets[i].status # "used" /\ tickets'[i].status = "used")
            => \E p \in Procs : /\ req[p].pc = "checkin_save"
                                /\ req[p].ticket = i
                                /\ req'[p].pc = "idle"
    ]_vars

\* a check-in of an active, not checked-in ticket was just refused because
\* its event is not published: the last of the four checks was reached
C20_Witness ==
  /\ resp = Response("checkin", "EventNotActive")
  /\ \E i \in TicketIds : /\ tickets[i].status = "active"
                          /\ ~tickets[i].isCheckedIn
                          /\ tickets[i].qrCode # NoQR
                          /\ events[tickets[i].event].status # "published"


\* C21: a cancelTicket by a caller who is neither the owner of the ticket
\* nor an admin fails with the forbidden error, whatever the status of the
\* ticket and the time left to the event, and changes no ticket and no
\* counter.
C21_CancelByStrangerForbidden ==
  [][\A p \in Procs, id \in 1..MaxTickets :
       (/\ id \in TicketIds
        /\ tickets[id].user # UserOf(p)
        /\ RoleOf(UserOf(p)) # "admin"
        /\ issued' # issued
        /\ CancelLoad(p, id))
         => /\ resp' = Response("cancel", "Forbidden")
            /\ req' = req
            /\ tickets' = tickets
            /\ events' = events]_vars

\* a cancellation by a stranger was just refused for a ticket that is no
\* longer active
C21_Witness ==
  /\ resp = Response("cancel", "Forbidden")
  /\ Len(tickets) = 1
  /\ tickets[1].status = "cancelled"

\* C22: no two tickets ever share a ticketNumber; a booking whose generated
\* number (the first draw, or the replacement drawn after a collision, also
\* when another booking has stored the same number in the meantime) is held
\* by a ticket aborts with an error, persists no ticket and changes no
\* counter.
C22_TicketNumbersUnique ==
  [][/\ \A i \in 1..Len(tickets'), j \in 1..Len(tickets') :
          i # j => tickets'[i].ticketNumber # tickets'[j].ticketNumber
     /\ \A p \in Procs :
          (/\ req[p].pc = "book_insert"
           /\ req'[p] # req[p]
           /\ req[p].number \in UsedNumbers)
            => /\ resp' = ServerError("book")
               /\ req'[p] = Idle
               /\ tickets' = tickets
               /\ events' = events]_vars

\* a booking was just aborted on its ticket number; the one ticket stored
\* is that of the other booking, which has counted its seat
C22_Witness ==
  /\ resp = ServerError("book")
  /\ Len(tickets) = 1
  /\ events["e1"].soldSeats = 1
  /\ \A p \in Procs : req[p].pc = "idle"

\* the request of p is past its load and the step taken is a step of p
StepInProgress(p) ==
  /\ req[p].pc # "idle"
  /\ req[p].pc # "checkin_save"
  /\ req'[p] # req[p]

\* the step leaves the counters of every event other than e and the
\* tickets of every event other than e as they are, and a ticket it adds is
\* a ticket of e
OtherEventsUnchanged(e) ==
  /\ \A o \in DOMAIN events \ {e} : events'[o] = events[o]
  /\ Len(tickets') >= Len(tickets)
  /\ \A i \in TicketIds : tickets[i].event # e => tickets'[i] = tickets[i]
  /\ \A i \in 1..Len(tickets') : i \notin TicketIds => tickets'[i].event = e

\* the seat lookup of p refuses exactly when a ticket of p's own event
\* holds the seat
SeatOutcomeOwnEvent(p) ==
  req[p].pc = "book_findSeat"
    => (resp' = Response("book", "SeatTaken")
          <=> \E i \in TicketIds : /\ tickets[i].event = req[p].event
                                   /\ tickets[i].seatNumber = req[p].seat
                                   /\ tickets[i].status \in {"active", "used"})

\* C23 as stated: a step of bookTicket or cancelTicket on event E leaves the
\* counters and the tickets of every other event unchanged, and its outcome
\* is decided by the tickets of E alone: the seat lookup is refused exactly
\* for a seat held under E, and the insert is rejected exactly for a number
\* held by a ticket of E.
C23_OutcomeFromOwnEventOnly ==
  [][\A p \in Procs :
       StepInProgress(p)
         => /\ OtherEventsUnchanged(req[p].event)
            /\ SeatOutcomeOwnEvent(p)
            /\ req[p].pc = "book_insert"
                 => (resp' = ServerError("book")
                       <=> \E i \in TicketIds :
                             /\ tickets[i].event = req[p].event
                             /\ tickets[i].ticketNumber = req[p].number)]_vars

\* C23, amended: a step of bookTicket or cancelTicket on event E leaves the
\* counters and the tickets of every other event unchanged; the seat lookup
\* is refused exactly for a seat held under E; the insert is rejected
\* exactly for a ticket number held by a ticket of any event, the numbers
\* being shared by all events.
C23_OtherEventsUnchanged ==
  [][\A p \in Procs :
       StepInProgress(p)
         => /\ OtherEventsUnchanged(req[p].event)
            /\ SeatOutcomeOwnEvent(p)
            /\ req[p].pc = "book_insert"
                 => (resp' = ServerError("book")
                       <=> \E i \in TicketIds :
                             tickets[i].ticketNumber = req[p].number)]_vars

\* a booking on e1 has counted its seat, and a booking of the same seat
\* number on e2 has stored its ticket and is about to count it
C23_Witness ==
  /\ Len(tickets) = 2
  /\ tickets[1].event # tickets[2].event
  /\ tickets[1].seatNumber = tickets[2].seatNumber
  /\ events[tickets[1].event].soldSeats = 1
  /\ events[tickets[2].event].soldSeats = 0
  /\ \E p \in Procs : /\ req[p].pc = "book_commit"
                        /\ req[p].ticket = 2

\* C24: a step of checkInTicket, whether the request is refused or the
\* ticket checked in, leaves totalSeats, availableSeats and soldSeats of
\* every event unchanged and changes no ticket other than the one the
\* presented credential names.
C24_CheckInTouchesOneTicket ==
  [][\A p \in Procs :
       /\ (/\ issued' # issued
           /\ req'[p].pc \in {"idle", "checkin_save"}
           /\ resp'.op \in {"checkin", "none"}
           /\ \E text \in PresentedCredentials : CheckInRequest(p, text))
            => /\ events' = events
               /\ tickets' = tickets
       /\ (req[p].pc = "checkin_save" /\ req'[p] # req[p])
            => /\ events' = events
               /\ Len(tickets') = Len(tickets)
               /\ \A i \in TicketIds :
                    i # req[p].ticket => tickets'[i] = tickets[i]]_vars

\* a ticket was just checked in while another ticket of the event is
\* active and the event's counters are those of the bookings
C24_Witness ==
  /\ resp = Response("checkin", "CheckedIn")
  /\ Len(tickets) = 2
  /\ \E i \in TicketIds, j \in TicketIds :
       /\ tickets[i].status = "used"
       /\ tickets[j].status = "active"
  /\ events["e1"].soldSeats = 2

\* the varied credentials, grouped by their ticketId
SameTicketIdClasses ==
  {{text \in VariedCredentials : TicketIdOf(text) = h} :
     h \in {TicketIdOf(text) : text \in VariedCredentials}}

\* C25: two well-formed credentials with the same ticketId that differ in
\* eventId, ticketNumber, seatNumber or attendeeName, presented by the same
\* caller in the same state, have the same outcome: a step that
\* checkInTicket takes for one of them is the step it takes for every other
\* one, so the response and the ticket loaded for the transition are the
\* same.
C25_OutcomeFromTicketIdAlone ==
  [][\A p \in GateClients :
       (/\ issued' # issued
        /\ req'[p].pc \in {"idle", "checkin_save"}
        /\ resp'.op \in {"checkin", "none"})
         => \A class \in SameTicketIdClasses :
              (\E text \in class : CheckInRequest(p, text))
                => \A other \in class : CheckInRequest(p, other)]_vars

\* a ticket stored with the payload of its booking was just checked in,
\* the check-in being the step of every varied credential that names it
C25_Witness ==
  /\ resp = Response("checkin", "CheckedIn")
  /\ \E i \in TicketIds :
       /\ tickets[i].status = "used"
       /\ tickets[i].qrCode.data \in VariedCredentials

\* C26: for every ticket booked, originalPrice is the event's ticketPrice;
\* if the event has an early-bird price, a price of 0 included, and the
\* clock is before earlyBird.deadline, then finalPrice is earlyBird.price
\* and discount is ticketPrice - earlyBird.price; otherwise finalPrice is
\* ticketPrice and discount is 0.
C26_PriceResolution ==
  \A i \in TicketIds :
    LET pricing == events[tickets[i].event].pricing
        earlyBird == pricing.earlyBird
    IN
    /\ tickets[i].pricing.originalPrice = pricing.ticketPrice
    /\ IF /\ earlyBird.price.defined
          /\ earlyBird.deadline.defined
          /\ now < earlyBird.deadline.v
         THEN /\ tickets[i].pricing.finalPrice = earlyBird.price.v
              /\ tickets[i].pricing.discount =
                   pricing.ticketPrice - earlyBird.price.v
         ELSE /\ tickets[i].pricing.finalPrice = pricing.ticketPrice
              /\ tickets[i].pricing.discount = 0

\* the early-bird price of the event applies and is above its ticketPrice
\* or below 0
EarlyBirdOutOfRange(e) ==
  LET pricing == events[e].pricing IN
  /\ pricing.earlyBird.price.defined
  /\ pricing.earlyBird.deadline.defined
  /\ now < pricing.earlyBird.deadline.v
  /\ \/ pricing.earlyBird.price.v > pricing.ticketPrice
     \/ pricing.earlyBird.price.v < 0

\* C27: every persisted ticket has finalPrice = originalPrice - discount,
\* finalPrice >= 0 and discount >= 0, for every pricing an event can have;
\* for an event whose applicable early-bird price is above its ticketPrice
\* (or below 0) no ticket is persisted and no seat is counted.
C27_PricesConsistent ==
  /\ \A i \in TicketIds :
       /\ tickets[i].pricing.finalPrice =
            tickets[i].pricing.originalPrice - tickets[i].pricing.discount
       /\ tickets[i].pricing.finalPrice >= 0
       /\ tickets[i].pricing.discount >= 0
  /\ \A e \in EventIds :
       EarlyBirdOutOfRange(e)
         => /\ \A i \in TicketIds : tickets[i].event # e
            /\ events[e].soldSeats = 0
            /\ events[e].availableSeats = events[e].totalSeats

\* a booking was just refused at Ticket.create for an event whose
\* early-bird price is above its ticketPrice
C27_Witness ==
  /\ resp = ServerError("book")
  /\ tickets = <<>>
  /\ EarlyBirdOutOfRange("e1")
  /\ events["e1"].pricing.earlyBird.price.v > events["e1"].pricing.ticketPrice

\* C28: the payment of a newly booked ticket follows from its payment
\* method alone: cash gives paymentStatus pending with no transactionId and
\* no paidAt; every other method gives completed with transactionId and
\* paidAt set.
C28_PaymentFromMethod ==
  \A i \in TicketIds :
    IF tickets[i].payment.paymentMethod = "cash"
      THEN /\ tickets[i].paymentStatus = "pending"
           /\ ~tickets[i].payment.transactionId.defined
           /\ ~tickets[i].payment.paidAt.defined
      ELSE /\ tickets[i].paymentStatus = "completed"
           /\ tickets[i].payment.transactionId.defined
           /\ tickets[i].payment.paidAt.defined

\* a ticket paid in cash is stored, its booking is complete
C28_Witness ==
  /\ resp = Response("book", "Booked")
  /\ \E i \in TicketIds : tickets[i].payment.paymentMethod = "cash"

\* C29: a ticket created without an explicit validUntil has validUntil
\* equal to dateTime.end of its event plus 24 hours.
C29_ValidUntilAfterEventEnd ==
  \A i \in TicketIds :
    tickets[i].validUntil = events[tickets[i].event].end + ValidityHours

\* C30: in every reachable state and for every ticket, checkIn.isCheckedIn
\* is true if and only if the status of the ticket is used; in particular
\* no ticket is both cancelled and checked in, whatever the interleaving of
\* cancelTicket and checkInTicket on the ticket.
C30_CheckedInIffUsed ==
  \A i \in TicketIds :
    tickets[i].isCheckedIn <=> tickets[i].status = "used"
=============================================================================
